---------------------------- MODULE Spec2Model ----------------------------
(***************************************************************************)
(* Model of modules/fastspeech/bbc_mask.py: the segment masking kernel on  *)
(* mel2ph alignment arrays, in its two implementations                     *)
(*   fast_bbc_mask       (per-sample loop)                                 *)
(*   fast_fast_bbc_mask  (dense [B, S, L] broadcast)                       *)
(* Tensors are functions over 0-based index ranges, as in the source.      *)
(* One behaviour is one experiment: an input array and a configuration are *)
(* chosen, fast_bbc_mask is called, then fast_fast_bbc_mask is called on   *)
(* the same arguments with the random generator set back to the same seed. *)
(***************************************************************************)
EXTENDS Integers, Sequences, FiniteSets, TLC

\* ------------------------------------------------------------- bounds
\* an input array has at most MaxBatch rows (batch_size) of at most MaxLen
\* frames (seq_len), and at most MaxNumel elements in all
MaxBatch == 3
MaxLen == 4
MaxNumel == 6

\* alignment values: 0 is padding, 1 and 2 are token ids
Tokens == {0, 1, 2}
\* mask_prob = 1.0: probabilities and draws are counted in halves
Unit == 2
\* the values a uniform draw of torch.rand takes: 0.0 and 0.5, both in [0, 1).
\* The code reads a draw only in rand < mask_prob; when mask_prob is not
\* inside (0, 1) every draw of [0, 1) compares alike and 0.0 stands for all
DrawsFor(p) == IF 0 < p /\ p < Unit THEN {0, 1} ELSE {0}
\* valid configurations (mask_prob 0.0, 0.5, 1.0), and the three kinds of
\* invalid ones
ValidConfigs ==
    [mask_length : {1, 2}, min_segment_length : {1, 2}, mask_prob : 0 .. Unit]
InvalidConfigs ==
    [mask_length : {-1, 0}, min_segment_length : {1}, mask_prob : {Unit}]
      \cup [mask_length : {1}, min_segment_length : {-1, 0}, mask_prob : {Unit}]
      \cup [mask_length : {1}, min_segment_length : {1}, mask_prob : {-1, Unit + 1}]
Configs == ValidConfigs \cup InvalidConfigs

\* ------------------------------------------------------------- helpers
\* a tensor is materialised: the value at every index, computed once
Tensor(f) == f @@ << >>
Max(a, b) == IF a >= b THEN a ELSE b

\* torch.where(mask)[0] of a 1-D boolean tensor: the indices that hold True,
\* in increasing order, as a 0-based list
Where(mask) ==
    LET S == {i \in DOMAIN mask : mask[i]}
    IN  Tensor([j \in 0 .. (Cardinality(S) - 1) |->
            CHOOSE i \in S : Cardinality({x \in S : x < i}) = j])

\* len() of a 0-based list
Len0(list) == Cardinality(DOMAIN list)

\* (mutant) the values are not shifted
ShiftValueIdentity(v) == v
\* torch.where(mel2ph > 0, mel2ph + 1, mel2ph), elementwise
ShiftValue(v) == IF v > 0 THEN v + 1 ELSE v
ShiftArray(m) ==
    Tensor([b \in DOMAIN m |-> Tensor([i \in DOMAIN m[b] |-> ShiftValue(m[b][i])])])

\* the sentinel F.pad writes at both ends of every row
PadValue == -1
\* (mutant) the row is padded with the padding value 0 instead of -1
PadRowZero(row, L) ==
    Tensor([i \in 0 .. (L + 1) |-> IF i = 0 \/ i = L + 1 THEN 0 ELSE row[i - 1]])
\* F.pad(row, [1, 1], value=-1): [L] -> [L+2]
PadRow(row, L) ==
    Tensor([i \in 0 .. (L + 1) |-> IF i = 0 \/ i = L + 1 THEN PadValue ELSE row[i - 1]])
\* padded[1:] != padded[:-1]: [L+2] -> [L+1]
DiffRow(row, L) ==
    LET padded == PadRow(row, L)
    IN  Tensor([i \in 0 .. L |-> padded[i + 1] # padded[i]])

\* ------------------------------------------------------------- state
VARIABLES
    mel2ph,              \* the input array [B, L]
    batch_size,          \* B
    seq_len,             \* L
    mask_length, min_segment_length, mask_prob,   \* mask_prob in halves
    pc,                  \* position of the experiment
    masked_mel2ph,       \* the shifted array of the call that runs
    stream,              \* the draws the generator has produced since the seed
    \* fast_bbc_mask
    batch_idx,           \* the loop variable
    resultA,             \* result
    segsA,               \* per sample: the descriptors and selection of its segments
    \* fast_fast_bbc_mask
    segment_ids,         \* [B, L]
    max_segments,        \* S
    segment_starts, segment_lengths, segment_values,   \* [B, S]
    mask_decisions,      \* [B, S]
    mask_matrix,         \* [B, S] -> the frames of the [B, S, L] volume that are True
    resultB              \* result

vars == <<mel2ph, batch_size, seq_len, mask_length, min_segment_length, mask_prob,
          pc, stream, masked_mel2ph, batch_idx, resultA, segsA, segment_ids, max_segments,
          segment_starts, segment_lengths, segment_values, mask_decisions,
          mask_matrix, resultB>>

inputVars == <<mel2ph, batch_size, seq_len, mask_length, min_segment_length, mask_prob>>
aVars == <<batch_idx, resultA, segsA>>
bVars == <<segment_ids, max_segments, segment_starts, segment_lengths,
           segment_values, mask_decisions, mask_matrix, resultB>>

None == "none"

\* the arguments of the experiment: an array within the bounds and a
\* configuration of Configs
BoundedInput ==
    /\ batch_size \in 0 .. MaxBatch
    /\ seq_len \in 0 .. MaxLen
    /\ batch_size * seq_len <= MaxNumel
    /\ mel2ph \in [0 .. (batch_size - 1) -> [0 .. (seq_len - 1) -> Tokens]]
    /\ \E c \in Configs :
          /\ mask_length = c.mask_length
          /\ min_segment_length = c.min_segment_length
          /\ mask_prob = c.mask_prob

\* the arguments of the concrete scenario: one row of 13 frames,
\* mask_length=2, min_segment_length=5, mask_prob=1.0
ScenarioRow == <<0, 0, 3, 3, 3, 3, 3, 3, 0, 5, 5, 5, 5>>
ScenarioInput ==
    /\ batch_size = 1
    /\ seq_len = Len(ScenarioRow)
    /\ mel2ph = Tensor([b \in {0} |-> Tensor([i \in 0 .. (Len(ScenarioRow) - 1) |->
                                                  ScenarioRow[i + 1]])])
    /\ mask_length = 2
    /\ min_segment_length = 5
    /\ mask_prob = Unit

Init ==
    /\ BoundedInput \/ ScenarioInput
    /\ pc = "A_call"
    /\ stream = << >>
    /\ masked_mel2ph = None
    /\ batch_idx = 0
    /\ resultA = None
    /\ segsA = << >>
    /\ segment_ids = None
    /\ max_segments = 0
    /\ segment_starts = None
    /\ segment_lengths = None
    /\ segment_values = None
    /\ mask_decisions = None
    /\ mask_matrix = None
    /\ resultB = None

\* ------------------------------------------------------------- fast_bbc_mask
\* lines 7-14: shapes, the shifted array, result = masked_mel2ph.clone()
A_Call ==
    /\ pc = "A_call"
    /\ masked_mel2ph' = ShiftArray(mel2ph)
    /\ resultA' = ShiftArray(mel2ph)
    /\ batch_idx' = 0
    /\ segsA' = [b \in 0 .. (batch_size - 1) |-> None]
    /\ pc' = "A_loop"
    /\ UNCHANGED <<inputVars, stream, bVars>>

\* line 17 (with 11 and 13): the positions where the padded row changes value
BoundariesOf(seq) == Where(DiffRow(seq, seq_len))
\* lines 22-25
StartsOf(boundaries) == Tensor([j \in 0 .. (Len0(boundaries) - 2) |-> boundaries[j]])
EndsOf(boundaries) == Tensor([j \in 0 .. (Len0(boundaries) - 2) |-> boundaries[j + 1]])
LengthsOf(starts, ends) == Tensor([j \in DOMAIN starts |-> ends[j] - starts[j]])
ValuesOf(seq, starts) == Tensor([j \in DOMAIN starts |-> seq[starts[j]]])
\* (mutant) padding segments are not excluded
ValidMaskAnyValue(values, lengths) ==
    Tensor([j \in DOMAIN values |-> lengths[j] >= min_segment_length])
\* line 27
ValidMaskOf(values, lengths) ==
    Tensor([j \in DOMAIN values |-> (values[j] # 0) /\ (lengths[j] >= min_segment_length)])

\* lines 16-32: the locals of the loop body for the row seq
SampleOf(seq) ==
    LET boundaries == BoundariesOf(seq)
        starts == StartsOf(boundaries)
        ends == EndsOf(boundaries)
        lengths == LengthsOf(starts, ends)
        values == ValuesOf(seq, starts)
        valid_mask == ValidMaskOf(values, lengths)
    IN  [boundaries |-> boundaries, starts |-> starts, ends |-> ends,
         lengths |-> lengths, values |-> values, valid_mask |-> valid_mask,
         valid_indices |-> Where(valid_mask)]

\* line 33: torch.rand(n) < mask_prob, elementwise
RandomMaskOf(rand) == Tensor([k \in DOMAIN rand |-> rand[k] < mask_prob])

\* lines 37-40: the frames result[batch_idx, mask_start:end] = 1 writes
\* (a slice holds the indices mask_start <= i < end that the row has)
WindowA(start, end) ==
    LET mask_start == Max(start, end - mask_length)
    IN  {i \in 0 .. (seq_len - 1) : mask_start <= i /\ i < end}

\* what is kept of one pass through the loop body: the locals, the segments
\* selected and the frames written for each segment
Pass(r, selected, written) ==
    [boundaries |-> r.boundaries, starts |-> r.starts, ends |-> r.ends,
     lengths |-> r.lengths, values |-> r.values, valid_mask |-> r.valid_mask,
     selected |-> selected, written |-> written]

\* lines 15-20: a sample with fewer than two boundaries is skipped
A_SkipNoBoundaries ==
    /\ pc = "A_loop"
    /\ batch_idx < batch_size
    /\ \E r \in {SampleOf(masked_mel2ph[batch_idx])} :
          /\ Len0(r.boundaries) < 2
          /\ segsA' = [segsA EXCEPT ![batch_idx] =
                          Pass(r, {}, [j \in DOMAIN r.starts |-> {}])]
    /\ batch_idx' = batch_idx + 1
    /\ UNCHANGED <<inputVars, pc, stream, masked_mel2ph, resultA, bVars>>

\* lines 15-30: a sample with no valid segment is skipped, no draw is made
A_SkipNoValid ==
    /\ pc = "A_loop"
    /\ batch_idx < batch_size
    /\ \E r \in {SampleOf(masked_mel2ph[batch_idx])} :
          /\ Len0(r.boundaries) >= 2
          /\ ~ \E j \in DOMAIN r.valid_mask : r.valid_mask[j]
          /\ segsA' = [segsA EXCEPT ![batch_idx] =
                          Pass(r, {}, [j \in DOMAIN r.starts |-> {}])]
    /\ batch_idx' = batch_idx + 1
    /\ UNCHANGED <<inputVars, pc, stream, masked_mel2ph, resultA, bVars>>

\* lines 15-40: one draw per valid segment, in segment order; the trailing
\* frames of the selected segments are set to 1
A_MaskSample ==
    /\ pc = "A_loop"
    /\ batch_idx < batch_size
    /\ \E r \in {SampleOf(masked_mel2ph[batch_idx])} :
          /\ Len0(r.boundaries) >= 2
          /\ \E j \in DOMAIN r.valid_mask : r.valid_mask[j]
          /\ \E rand \in [DOMAIN r.valid_indices -> DrawsFor(mask_prob)] :
             \E random_mask \in {RandomMaskOf(rand)} :
                LET selected_segments ==
                        {r.valid_indices[k] : k \in {k \in DOMAIN rand : random_mask[k]}}
                    written == [j \in DOMAIN r.starts |->
                                   IF j \in selected_segments
                                   THEN WindowA(r.starts[j], r.ends[j]) ELSE {}]
                IN  /\ stream' = stream \o [k \in 1 .. Len0(rand) |-> rand[k - 1]]
                    /\ resultA' = [resultA EXCEPT ![batch_idx] =
                           [i \in 0 .. (seq_len - 1) |->
                               IF \E j \in selected_segments : i \in written[j]
                               THEN 1 ELSE resultA[batch_idx][i]]]
                    /\ segsA' = [segsA EXCEPT ![batch_idx] =
                                    Pass(r, selected_segments, written)]
    /\ batch_idx' = batch_idx + 1
    /\ UNCHANGED <<inputVars, pc, masked_mel2ph, bVars>>

\* line 42: return result; the experiment goes on to fast_fast_bbc_mask, with
\* the generator back at the seed
A_Return ==
    /\ pc = "A_loop"
    /\ batch_idx >= batch_size
    /\ pc' = "A_returned"
    /\ UNCHANGED <<inputVars, stream, masked_mel2ph, aVars, bVars>>

\* ------------------------------------------------------------- fast_fast_bbc_mask
RECURSIVE SumTo(_, _)
\* the sum of f[0], ..., f[n]
SumTo(f, n) == IF n < 0 THEN 0 ELSE f[n] + SumTo(f, n - 1)

\* lines 53-59 for one row: cumsum of the boundary flags, minus one, without
\* the last position: [L+1] -> [L]
SegmentIdsRow(row, L) ==
    LET diff == DiffRow(row, L)
        boundaries == Tensor([i \in 0 .. L |-> IF diff[i] THEN 1 ELSE 0])
    IN  Tensor([i \in 0 .. (L - 1) |-> SumTo(boundaries, i) - 1])

\* lines 47-59
B_Call ==
    /\ pc = "A_returned"
    /\ masked_mel2ph' = ShiftArray(mel2ph)
    /\ segment_ids' = Tensor([b \in 0 .. (batch_size - 1) |->
                                 SegmentIdsRow(ShiftArray(mel2ph)[b], seq_len)])
    /\ pc' = "B_max"
    /\ UNCHANGED <<inputVars, stream, aVars, max_segments, segment_starts,
                   segment_lengths, segment_values, mask_decisions, mask_matrix,
                   resultB>>

\* the elements of a [B, L] tensor
Elements(t) == {t[b][l] : b \in 0 .. (batch_size - 1), l \in 0 .. (seq_len - 1)}
SetMax(S) == CHOOSE x \in S : \A y \in S : y <= x

\* line 60: segment_ids.max() of a tensor that has elements
B_MaxSegments ==
    /\ pc = "B_max"
    /\ batch_size * seq_len > 0
    /\ max_segments' = SetMax(Elements(segment_ids)) + 1
    /\ pc' = "B_info"
    /\ UNCHANGED <<inputVars, stream, masked_mel2ph, aVars, segment_ids,
                   segment_starts, segment_lengths, segment_values, mask_decisions,
                   mask_matrix, resultB>>

\* line 60: segment_ids.max() of a tensor with no element raises RuntimeError
\* (max(): Expected reduction dim to be specified for input.numel() == 0)
B_MaxRaises ==
    /\ pc = "B_max"
    /\ batch_size * seq_len = 0
    /\ pc' = "B_raised"
    /\ UNCHANGED <<inputVars, stream, masked_mel2ph, aVars, bVars>>

\* lines 80-88: pos_masked.min(dim=2) for the slot s of the row ids
SegmentStart(ids, s) ==
    LET pos_masked == Tensor([l \in 0 .. (seq_len - 1) |->
                                 IF ids[l] = s THEN l ELSE seq_len])
    IN  CHOOSE m \in {pos_masked[l] : l \in 0 .. (seq_len - 1)} :
            \A l \in 0 .. (seq_len - 1) : m <= pos_masked[l]
\* line 91: segment_mask.sum(dim=2)
SegmentLength(ids, s) == Cardinality({l \in 0 .. (seq_len - 1) : ids[l] = s})
\* (mutant) the values of all the frames of the slot are summed
SegmentValueAllFrames(row, ids, s) ==
    SumTo(Tensor([l \in 0 .. (seq_len - 1) |-> IF ids[l] = s THEN row[l] ELSE 0]),
          seq_len - 1)
\* lines 93-95: the sum of the row's values where pos_masked equals the start
SegmentValue(row, ids, s) ==
    LET pos_masked == Tensor([l \in 0 .. (seq_len - 1) |->
                                 IF ids[l] = s THEN l ELSE seq_len])
        start == SegmentStart(ids, s)
        values_masked == Tensor([l \in 0 .. (seq_len - 1) |->
                                    IF pos_masked[l] = start THEN row[l] ELSE 0])
    IN  SumTo(values_masked, seq_len - 1)

\* a [B, S] tensor
Table(f(_, _)) ==
    Tensor([b \in 0 .. (batch_size - 1) |->
               Tensor([s \in 0 .. (max_segments - 1) |-> f(b, s)])])

\* lines 62-64 and 78-97: compute_segment_info_parallel
B_SegmentInfo ==
    /\ pc = "B_info"
    /\ LET start(b, s) == SegmentStart(segment_ids[b], s)
           length(b, s) == SegmentLength(segment_ids[b], s)
           value(b, s) == SegmentValue(masked_mel2ph[b], segment_ids[b], s)
       IN  /\ segment_starts' = Table(start)
           /\ segment_lengths' = Table(length)
           /\ segment_values' = Table(value)
    /\ pc' = "B_decide"
    /\ UNCHANGED <<inputVars, stream, masked_mel2ph, aVars, segment_ids,
                   max_segments, mask_decisions, mask_matrix, resultB>>

\* (mutant) short segments are not excluded
ValidSegmentAnyLength(b, s) == segment_values[b][s] # 0
\* line 67
ValidSegment(b, s) ==
    (segment_values[b][s] # 0) /\ (segment_lengths[b][s] >= min_segment_length)

\* lines 67-70: torch.rand_like draws one value per slot of the [B, S] table,
\* row by row; the generator is at the seed, so its first draws are those of
\* stream and the rest are new
B_Decide ==
    /\ pc = "B_decide"
    /\ \E tail \in [(Len(stream) + 1) .. (batch_size * max_segments) -> DrawsFor(mask_prob)] :
          LET draw(k) == IF k <= Len(stream) THEN stream[k] ELSE tail[k]
              random_vals(b, s) == draw(b * max_segments + s + 1)
              decision(b, s) == ValidSegment(b, s) /\ (random_vals(b, s) < mask_prob)
          IN  mask_decisions' = Table(decision)
    /\ pc' = "B_apply"
    /\ UNCHANGED <<inputVars, stream, masked_mel2ph, aVars, segment_ids,
                   max_segments, segment_starts, segment_lengths, segment_values,
                   mask_matrix, resultB>>

\* (mutant) the start of the window is not clamped to the start of the segment
WindowBUnclamped(b, s) ==
    LET segment_end == segment_starts[b][s] + segment_lengths[b][s]
    IN  {l \in 0 .. (seq_len - 1) :
            (l >= segment_end - mask_length) /\ (l < segment_end) /\ mask_decisions[b][s]}
\* lines 109-118: the frames of slot (b, s) that are True in mask_matrix
WindowB(b, s) ==
    LET segment_end == segment_starts[b][s] + segment_lengths[b][s]
        mask_start == Max(segment_end - mask_length, segment_starts[b][s])
        mask_end == segment_end
    IN  {l \in 0 .. (seq_len - 1) :
            (l >= mask_start) /\ (l < mask_end) /\ mask_decisions[b][s]}

\* lines 72-77 and 101-126: apply_masks_parallel, and return result
B_Apply ==
    /\ pc = "B_apply"
    /\ \E matrix \in {Table(WindowB)} :
          /\ mask_matrix' = matrix
          /\ resultB' = Tensor([b \in 0 .. (batch_size - 1) |->
                Tensor([l \in 0 .. (seq_len - 1) |->
                    IF \E s \in 0 .. (max_segments - 1) : l \in matrix[b][s]
                    THEN 1 ELSE masked_mel2ph[b][l]])])
    /\ pc' = "B_returned"
    /\ UNCHANGED <<inputVars, stream, masked_mel2ph, aVars, segment_ids,
                   max_segments, segment_starts, segment_lengths, segment_values,
                   mask_decisions>>

Next ==
    \/ A_Call
    \/ A_SkipNoBoundaries
    \/ A_SkipNoValid
    \/ A_MaskSample
    \/ A_Return
    \/ B_Call
    \/ B_MaxSegments
    \/ B_MaxRaises
    \/ B_SegmentInfo
    \/ B_Decide
    \/ B_Apply

Spec == Init /\ [][Next]_vars

\* ------------------------------------------------------------- properties
\* The words of the properties: the configuration, the shifted array and its
\* maximal runs, stated from the data model and not from the code's steps.
ValidConfig ==
    (mask_length >= 1) /\ (min_segment_length >= 1) /\ (0 <= mask_prob) /\ (mask_prob <= Unit)
Min(a, b) == IF a <= b THEN a ELSE b
Samples == 0 .. (batch_size - 1)
Frames == 0 .. (seq_len - 1)
\* fast_bbc_mask has returned; fast_fast_bbc_mask has returned
ReturnedA == pc \notin {"A_call", "A_loop"}
ReturnedB == pc = "B_returned"
\* the sample b has been through the loop body of fast_bbc_mask
PassedA(b) == (pc # "A_call") /\ (b \in Samples) /\ (b < batch_idx)
\* the shifted value of frame i of sample b
Shifted(b, i) == IF mel2ph[b][i] = 0 THEN 0 ELSE mel2ph[b][i] + 1
ShiftedRow(b) == [i \in Frames |-> Shifted(b, i)]
\* frame i starts a maximal run of sample b
StartsRun(b, i) == (i = 0) \/ (Shifted(b, i) # Shifted(b, i - 1))
\* the number of maximal runs of sample b, and the index of the run of frame i
NumRuns(b) == Cardinality({i \in Frames : StartsRun(b, i)})
RunIndex(b, i) == Cardinality({t \in 1 .. i : StartsRun(b, t)})
\* the first frame of the run of frame i, and the frame after its last
RunStart(b, i) == CHOOSE s \in 0 .. i : StartsRun(b, s) /\ RunIndex(b, s) = RunIndex(b, i)
RunEnd(b, i) ==
    CHOOSE e \in (i + 1) .. seq_len :
        /\ (e = seq_len) \/ StartsRun(b, e)
        /\ \A t \in (i + 1) .. (e - 1) : ~ StartsRun(b, t)
RunLength(b, i) == RunEnd(b, i) - RunStart(b, i)
\* the run of frame i is eligible
Eligible(b, i) == (Shifted(b, i) # 0) /\ (RunLength(b, i) >= min_segment_length)
\* the trailing window of the segment (start, length)
Trailing(start, length) ==
    {i \in Frames : Max(start, start + length - mask_length) <= i /\ i < start + length}

\* fast_fast_bbc_mask has computed segment_ids; its segment table
HasSegmentIds == pc \in {"B_max", "B_info", "B_decide", "B_apply", "B_returned", "B_raised"}
HasTable == pc \in {"B_decide", "B_apply", "B_returned"}

\* the boundaries of sample b cut its row into its maximal runs
PartitionA(b) ==
    LET bd == segsA[b].boundaries
        n == Len0(bd)
    IN  /\ n = NumRuns(b) + 1
        /\ bd[0] = 0
        /\ bd[n - 1] = seq_len
        /\ \A j \in 0 .. (n - 2) : (bd[j + 1] - bd[j] >= 1) /\ (bd[j + 1] <= seq_len)
        /\ \A i \in Frames :
              Cardinality({j \in 0 .. (n - 2) : bd[j] <= i /\ i < bd[j + 1]}) = 1
        /\ \A j \in 0 .. (n - 2) :
              \A i \in bd[j] .. (bd[j + 1] - 1) : Shifted(b, i) = Shifted(b, bd[j])
        /\ \A j \in 0 .. (n - 3) : Shifted(b, bd[j]) # Shifted(b, bd[j + 1])

\* C9 as stated: for every sample of every input array, boundary detection
\* yields k+1 increasing boundaries from 0 to L, k the number of maximal runs,
\* whose k intervals partition [0, L) into the runs. (Fails for L = 0: no
\* boundary is found where the claim counts one.)
C9_AsStated == \A b \in Samples : PassedA(b) => PartitionA(b)

\* C9 amended: the same for every sample of every input array with L >= 1,
\* in fast_bbc_mask (the list of boundaries) and in fast_fast_bbc_mask (the
\* segment id of a frame is the index of its run); a row of L = 0 frames has
\* no boundary at all.
C9_Partition ==
    /\ seq_len >= 1 =>
          /\ \A b \in Samples : PassedA(b) => PartitionA(b)
          /\ HasSegmentIds =>
                \A b \in Samples : \A i \in Frames : segment_ids[b][i] = RunIndex(b, i)
    /\ seq_len = 0 =>
          \A b \in Samples : PassedA(b) => Len0(segsA[b].boundaries) = 0

\* C9 witness: both calls are over and a row of three runs or more begins and
\* ends with padding
C9_Witness ==
    /\ ReturnedB
    /\ \E b \in Samples :
          /\ NumRuns(b) >= 3
          /\ Shifted(b, 0) = 0
          /\ Shifted(b, seq_len - 1) = 0

\* C8: for L >= 1, every real segment j of every sample has the same
\* (start, length, value) in the list of fast_bbc_mask and in slot j of the
\* table of fast_fast_bbc_mask
C8_SameDescriptors ==
    (seq_len >= 1 /\ HasTable) =>
        \A b \in Samples : \A j \in DOMAIN segsA[b].starts :
            /\ j < max_segments
            /\ segment_starts[b][j] = segsA[b].starts[j]
            /\ segment_lengths[b][j] = segsA[b].lengths[j]
            /\ segment_values[b][j] = segsA[b].values[j]

\* C8 witness: the table is built for two rows with different numbers of
\* segments, one of them with a token run of two frames or more
C8_Witness ==
    /\ HasTable
    /\ \E b, c \in Samples : Len0(segsA[b].starts) < Len0(segsA[c].starts)
    /\ \E b \in Samples : \E j \in DOMAIN segsA[b].starts :
          segsA[b].values[j] # 0 /\ segsA[b].lengths[j] >= 2

Slots == 0 .. (max_segments - 1)
HasDecisions == pc \in {"B_apply", "B_returned"}

\* the frames W written for the segment (start, length) of sample b are its
\* trailing window and stay inside the segment
ExactWindow(b, start, length, W) ==
    /\ W = Max(start, start + length - mask_length) .. (start + length - 1)
    /\ W \subseteq start .. (start + length - 1)
    /\ Cardinality(W) = Min(mask_length, length)
    /\ \A i \in W : (i \in Frames) /\ (RunStart(b, i) = start)
                                   /\ (RunEnd(b, i) = start + length)

\* C2: with mask_length >= 1, the frames written for a selected segment
\* (start, length) are exactly [max(start, start+length-mask_length),
\* start+length): inside the segment, min(mask_length, length) of them, none in
\* a neighbouring segment; in fast_bbc_mask and in fast_fast_bbc_mask
C2_Window ==
    mask_length >= 1 =>
        /\ \A b \in Samples : PassedA(b) =>
              \A j \in segsA[b].selected :
                  ExactWindow(b, segsA[b].starts[j], segsA[b].lengths[j],
                              segsA[b].written[j])
        /\ ReturnedB =>
              \A b \in Samples : \A s \in Slots :
                  mask_decisions[b][s] =>
                      ExactWindow(b, segment_starts[b][s], segment_lengths[b][s],
                                  mask_matrix[b][s])

\* C2 witness: both calls have selected a segment shorter than mask_length
\* that has a segment before it
C2_Witness ==
    /\ ReturnedB
    /\ \E b \in Samples : \E j \in segsA[b].selected :
          /\ segsA[b].lengths[j] < mask_length
          /\ segsA[b].starts[j] > 0
          /\ mask_decisions[b][j]

\* C3: with min_segment_length >= 1 and whatever the draws, no frame of a
\* segment of value 0 or shorter than min_segment_length is set to 1, by
\* fast_bbc_mask or by fast_fast_bbc_mask; the slots of the table past a
\* sample's real segments are never selected and write no frame
C3_Gating ==
    min_segment_length >= 1 =>
        /\ \A b \in Samples : PassedA(b) =>
              /\ \A i \in Frames : ~ Eligible(b, i) => resultA[b][i] # 1
              /\ \A j \in segsA[b].selected :
                    (segsA[b].values[j] # 0) /\ (segsA[b].lengths[j] >= min_segment_length)
        /\ HasDecisions =>
              \A b \in Samples : \A s \in Slots :
                  /\ s >= NumRuns(b) => ~ mask_decisions[b][s]
                  /\ mask_decisions[b][s] =>
                        /\ segment_values[b][s] # 0
                        /\ segment_lengths[b][s] >= min_segment_length
        /\ ReturnedB =>
              \A b \in Samples :
                  /\ \A i \in Frames : ~ Eligible(b, i) => resultB[b][i] # 1
                  /\ \A s \in Slots : s >= NumRuns(b) => mask_matrix[b][s] = {}

\* C3 witness: mask_prob is 1, both calls are over, a sample has a token run
\* shorter than min_segment_length, a sample has an unused slot whose value
\* is not 0, and both calls have masked a frame
C3_Witness ==
    /\ ReturnedB
    /\ mask_prob = Unit
    /\ \E b \in Samples : \E i \in Frames :
          (Shifted(b, i) # 0) /\ (RunLength(b, i) < min_segment_length)
    /\ \E b \in Samples : \E s \in Slots : (s >= NumRuns(b)) /\ (segment_values[b][s] # 0)
    /\ \E b \in Samples : \E i \in Frames : (resultA[b][i] = 1) /\ (resultB[b][i] = 1)

\* C4: an output frame is 1 exactly when it lies in the trailing window of a
\* selected segment; every other output frame holds its shifted value (0 for
\* raw 0, raw + 1 for raw > 0: never 1); with mask_prob = 0 the output is the
\* shifted input; for fast_bbc_mask and for fast_fast_bbc_mask
C4_Frames ==
    /\ \A b \in Samples : PassedA(b) =>
          \A i \in Frames :
              /\ (resultA[b][i] = 1) <=>
                    \E j \in segsA[b].selected :
                        i \in Trailing(segsA[b].starts[j], segsA[b].lengths[j])
              /\ (resultA[b][i] # 1) => (resultA[b][i] = Shifted(b, i))
              /\ (mask_prob = 0) => (resultA[b][i] = Shifted(b, i))
    /\ ReturnedB =>
          \A b \in Samples : \A i \in Frames :
              /\ (resultB[b][i] = 1) <=>
                    \E s \in Slots :
                        /\ mask_decisions[b][s]
                        /\ i \in Trailing(segment_starts[b][s], segment_lengths[b][s])
              /\ (resultB[b][i] # 1) => (resultB[b][i] = Shifted(b, i))
              /\ (mask_prob = 0) => (resultB[b][i] = Shifted(b, i))

\* C4 witness: mask_prob is 0.5, both calls are over, each has masked a frame
\* of a token run and left a frame of raw value 1 of an eligible run unmasked
C4_Witness ==
    /\ ReturnedB
    /\ 0 < mask_prob /\ mask_prob < Unit
    /\ \E b \in Samples : \E i \in Frames : resultA[b][i] = 1
    /\ \E b \in Samples : \E i \in Frames : resultB[b][i] = 1
    /\ \E b \in Samples : \E i \in Frames :
          (mel2ph[b][i] = 1) /\ Eligible(b, i) /\ (resultA[b][i] = 2)
    /\ \E b \in Samples : \E i \in Frames :
          (mel2ph[b][i] = 1) /\ Eligible(b, i) /\ (resultB[b][i] = 2)

\* sample b is one uniform run of L >= 1 frames
SingleRun(b) == (seq_len >= 1) /\ (NumRuns(b) = 1)
\* the shifted row of sample b with its last mask_length frames set to 1
MarkedRow(b) ==
    [i \in Frames |-> IF i >= seq_len - mask_length THEN 1 ELSE Shifted(b, i)]

\* C6 as stated, in what it says of the output: a sample whose row is a
\* single uniform run is left unmasked by both functions, its output row is
\* its shifted row whatever the configuration. (Fails, and with it the rest of
\* the claim: such a row has the two boundaries 0 and L and one segment, which
\* is masked when it is eligible and selected.)
C6_AsStated ==
    \A b \in Samples : (PassedA(b) /\ SingleRun(b)) =>
        /\ resultA[b] = ShiftedRow(b)
        /\ ReturnedB => resultB[b] = ShiftedRow(b)

\* the output row of a single-run sample, as amended
UniformOutcome(b, row) ==
    /\ Shifted(b, 0) = 0 => row = ShiftedRow(b)
    /\ (Shifted(b, 0) # 0 /\ ValidConfig) =>
          /\ row \in {ShiftedRow(b), MarkedRow(b)}
          /\ (seq_len < min_segment_length \/ mask_prob = 0) => row = ShiftedRow(b)
          /\ (seq_len >= min_segment_length /\ mask_prob = Unit) => row = MarkedRow(b)

\* C6 amended: only a row of L = 0 frames has fewer than two boundaries and
\* no segment. A row that is a single uniform run of L >= 1 frames has the two
\* boundaries 0 and L and the one segment (0, L, value). An all-zero row is
\* left unmasked under every configuration; a run of a token, under a valid
\* configuration, is left unmasked when L < min_segment_length or its draw
\* is not below mask_prob (always for mask_prob = 0), and has its last
\* min(mask_length, L) frames set to 1 otherwise (always for mask_prob = 1 and
\* L >= min_segment_length); in both functions.
C6_UniformRow ==
    \A b \in Samples : PassedA(b) =>
        /\ seq_len = 0 =>
              (Len0(segsA[b].boundaries) = 0) /\ (Len0(segsA[b].starts) = 0)
        /\ SingleRun(b) =>
              /\ Len0(segsA[b].boundaries) = 2
              /\ segsA[b].boundaries[0] = 0
              /\ segsA[b].boundaries[1] = seq_len
              /\ Len0(segsA[b].starts) = 1
              /\ segsA[b].starts[0] = 0
              /\ segsA[b].lengths[0] = seq_len
              /\ segsA[b].values[0] = Shifted(b, 0)
              /\ UniformOutcome(b, resultA[b])
              /\ ReturnedB => UniformOutcome(b, resultB[b])

\* C6 witness: both calls are over; one sample is a run of a token, two
\* frames or more, that both have masked, and one is all zero
C6_Witness ==
    /\ ReturnedB
    /\ seq_len >= 2
    /\ \E b \in Samples :
          /\ SingleRun(b) /\ Shifted(b, 0) # 0
          /\ resultA[b] = MarkedRow(b) /\ resultB[b] = MarkedRow(b)
    /\ \E b \in Samples : SingleRun(b) /\ Shifted(b, 0) = 0

\* C1 as stated: called with the same array, the same configuration and the
\* same sequence of draws, each consuming it from its head in its own order,
\* the two functions return the same array
C1_AsStated == ReturnedB => resultA = resultB

\* C5 as stated: a call with an invalid configuration ends in a validation
\* error and never returns an output array
C5_AsStated == ~ ValidConfig => (~ ReturnedA /\ ~ ReturnedB)

\* the reference result: the shifted array with the last
\* min(mask_length, length) frames of every eligible run set to 1
Reference ==
    [b \in Samples |->
        [i \in Frames |->
            IF Eligible(b, i) /\ i >= RunEnd(b, i) - mask_length
            THEN 1 ELSE Shifted(b, i)]]
\* both calls are over
Over == pc \in {"B_returned", "B_raised"}

\* C7 as stated: with mask_prob = 1, mask_length >= 1 and
\* min_segment_length >= 1, both functions return the reference result for
\* every input array
C7_AsStated ==
    (Over /\ mask_prob = Unit /\ mask_length >= 1 /\ min_segment_length >= 1) =>
        /\ resultA = Reference
        /\ ReturnedB
        /\ resultB = Reference

\* C7 on the arrays that have an element, which is all that holds of it
Saturation ==
    (Over /\ mask_prob = Unit /\ mask_length >= 1 /\ min_segment_length >= 1) =>
        /\ resultA = Reference
        /\ (batch_size * seq_len > 0) => (ReturnedB /\ resultB = Reference)
\* the concrete scenario: both functions return [0,0,4,4,4,4,1,1,0,6,6,6,6]
ScenarioResult == <<0, 0, 4, 4, 4, 4, 1, 1, 0, 6, 6, 6, 6>>
Scenario ==
    (Over /\ seq_len = Len(ScenarioRow)) =>
        /\ ReturnedB
        /\ \A i \in Frames : resultA[0][i] = ScenarioResult[i + 1]
        /\ \A i \in Frames : resultB[0][i] = ScenarioResult[i + 1]

\* the array t has the shape [batch_size, seq_len]
SameShape(t) == (DOMAIN t = Samples) /\ (\A b \in Samples : DOMAIN t[b] = Frames)

\* C10 as stated: under a valid configuration both functions run to
\* completion on every array, B = 0 and L = 0 included, raise nothing and
\* return an array of the shape [B, L]
C10_AsStated ==
    ValidConfig =>
        /\ pc # "B_raised"
        /\ ReturnedA => SameShape(resultA)
        /\ ReturnedB => SameShape(resultB)

\* C10 on the arrays that have an element, and for fast_bbc_mask on all
Totality ==
    /\ ReturnedA => SameShape(resultA)
    /\ ReturnedB => SameShape(resultB)
    /\ (pc = "B_raised") => (batch_size * seq_len = 0)
    /\ (pc \in {"B_info", "B_decide", "B_apply", "B_returned"}) =>
          (batch_size * seq_len > 0)
=============================================================================
